---- MODULE Spec2Model ----
(***************************************************************************)
(* State-machine model of the NOVA AI chat relay (src/main.py): the        *)
(* per-identity rate limiter, the rolling conversation memory, the         *)
(* /v8/chat, /v8/reset and /v8/stats handlers and the stream_response      *)
(* generator that relays the upstream event stream.                        *)
(*                                                                         *)
(* Text is a sequence of tokens; every token stands for a run of           *)
(* characters whose length is TokLen(token).  The token " " is one         *)
(* whitespace character.  Concatenation of text is \o.                     *)
(*                                                                         *)
(* The generator does blocking I/O inside the event loop, so the code      *)
(* between two of its suspension points (creation, the yield of line 135,  *)
(* the yield of line 139, its end) runs without interleaving: one action   *)
(* takes a generator from one suspension point to the next.                *)
(***************************************************************************)
EXTENDS Integers, Sequences, FiniteSets, TLC

\* ------------------------------------------------------------ configuration
REQUESTS_PER_MINUTE == 30
MAX_MESSAGE_LENGTH  == 3000
MAX_MEMORY_MESSAGES == 20
WINDOW_SECONDS      == 60
BASE_SYSTEM_PROMPT  == <<"You are NOVA">>

\* ------------------------------------------------------------------- state
VARIABLES
    USER_MEMORY,    \* dict uid -> list of turns
    USER_REQUESTS,  \* dict uid -> list of admission timestamps
    STATS,          \* [requests, blocked]
    clock,          \* the value time.time() returns
    gens,           \* live stream_response generators, keyed by request number
    fin,            \* <<>> or <<g>>: the generator that ended most recently
    reply,          \* the HTTP response of the handler that ran last
    commits,        \* history: uid -> turns save_memory appended since the last reset
    attempts        \* history: uid -> the chat requests received, [t, message, status]

vars == <<USER_MEMORY, USER_REQUESTS, STATS, clock, gens, fin, reply, commits, attempts>>

\* ------------------------------------------------------------ dictionaries
EmptyDict == <<>>

Get(d, k, default) == IF k \in DOMAIN d THEN d[k] ELSE default

Put(d, k, v) == [x \in (DOMAIN d) \cup {k} |-> IF x = k THEN v ELSE d[x]]

Pop(d, k) == [x \in (DOMAIN d) \ {k} |-> d[x]]

\* ------------------------------------------------------------------- text
TokLen(tok) ==
    CASE tok = "x2999" -> 2999
      [] tok = "hi"    -> 2
      [] OTHER         -> 1

RECURSIVE StrLen(_)
StrLen(s) == IF s = <<>> THEN 0 ELSE TokLen(Head(s)) + StrLen(Tail(s))

IsSpace(tok) == tok = " "

RECURSIVE lstrip(_)
lstrip(s) == IF s # <<>> /\ IsSpace(Head(s)) THEN lstrip(Tail(s)) ELSE s

RECURSIVE rstrip(_)
rstrip(s) ==
    IF s # <<>> /\ IsSpace(s[Len(s)]) THEN rstrip(SubSeq(s, 1, Len(s) - 1)) ELSE s

strip(s) == rstrip(lstrip(s))

\* s[-n:] of Python, n > 0
LastN(s, n) == IF Len(s) <= n THEN s ELSE SubSeq(s, Len(s) - n + 1, Len(s))

Turn(role, content) == [role |-> role, content |-> content]

ErrorFragment(e) == <<"\n\n", "Error: ">> \o e

IsErrorFragment(f) == Len(f) >= 2 /\ f[1] = "\n\n" /\ f[2] = "Error: "

\* ---------------------------------------------------------------- helpers
now == clock

get_user_id(uid, fresh) == IF uid = "" THEN fresh ELSE uid

\* rate_limit appending the timestamp before the check of line 91
rate_limit_records_first(reqs, stats, uid, t) ==
    LET pruned == SelectSeq(Get(reqs, uid, <<>>), LAMBDA x : t - x < WINDOW_SECONDS)
        r1     == Put(reqs, uid, Append(pruned, t))
    IN  IF Len(pruned) >= REQUESTS_PER_MINUTE
        THEN [ok |-> FALSE, USER_REQUESTS |-> r1,
              STATS |-> [stats EXCEPT !.blocked = @ + 1]]
        ELSE [ok |-> TRUE, USER_REQUESTS |-> r1, STATS |-> stats]

\* rate_limit comparing with > in place of >= at line 91
rate_limit_off_by_one(reqs, stats, uid, t) ==
    LET pruned == SelectSeq(Get(reqs, uid, <<>>), LAMBDA x : t - x < WINDOW_SECONDS)
        r1     == Put(reqs, uid, pruned)
    IN  IF Len(pruned) > REQUESTS_PER_MINUTE
        THEN [ok |-> FALSE, USER_REQUESTS |-> r1,
              STATS |-> [stats EXCEPT !.blocked = @ + 1]]
        ELSE [ok |-> TRUE, USER_REQUESTS |-> Put(r1, uid, Append(pruned, t)),
              STATS |-> stats]

\* rate_limit keeping a timestamp until it is more than 60 seconds old
\* (now() - t <= 60 at line 90)
rate_limit_keeps_boundary(reqs, stats, uid, t) ==
    LET pruned == SelectSeq(Get(reqs, uid, <<>>), LAMBDA x : t - x <= WINDOW_SECONDS)
        r1     == Put(reqs, uid, pruned)
    IN  IF Len(pruned) >= REQUESTS_PER_MINUTE
        THEN [ok |-> FALSE, USER_REQUESTS |-> r1,
              STATS |-> [stats EXCEPT !.blocked = @ + 1]]
        ELSE [ok |-> TRUE, USER_REQUESTS |-> Put(r1, uid, Append(pruned, t)),
              STATS |-> stats]

rate_limit(reqs, stats, uid, t) ==
    LET pruned == SelectSeq(Get(reqs, uid, <<>>), LAMBDA x : t - x < WINDOW_SECONDS)
        r1     == Put(reqs, uid, pruned)
    IN  IF Len(pruned) >= REQUESTS_PER_MINUTE
        THEN [ok |-> FALSE, USER_REQUESTS |-> r1,
              STATS |-> [stats EXCEPT !.blocked = @ + 1]]
        ELSE [ok |-> TRUE, USER_REQUESTS |-> Put(r1, uid, Append(pruned, t)),
              STATS |-> stats]

\* build_messages putting the new user turn before the stored history
build_messages_history_last(mem, uid, msg) ==
    <<Turn("system", BASE_SYSTEM_PROMPT)>> \o <<Turn("user", msg)>> \o Get(mem, uid, <<>>)

build_messages(mem, uid, msg) ==
    <<Turn("system", BASE_SYSTEM_PROMPT)>> \o Get(mem, uid, <<>>) \o <<Turn("user", msg)>>

\* save_memory truncating with [:40] in place of [-40:]
save_memory_keeps_oldest(mem, uid, user_msg, ai_msg) ==
    LET extended == Get(mem, uid, <<>>)
                        \o <<Turn("user", user_msg), Turn("assistant", ai_msg)>>
    IN  Put(mem, uid, SubSeq(extended, 1, IF Len(extended) < MAX_MEMORY_MESSAGES * 2
                                          THEN Len(extended) ELSE MAX_MEMORY_MESSAGES * 2))

\* save_memory with one list shared by all identities: the pair goes to
\* every history there is
save_memory_shared(mem, uid, user_msg, ai_msg) ==
    [x \in (DOMAIN mem) \cup {uid} |->
        LastN(Get(mem, x, <<>>) \o <<Turn("user", user_msg), Turn("assistant", ai_msg)>>,
              MAX_MEMORY_MESSAGES * 2)]

\* save_memory truncating with [-(MAX_MEMORY_MESSAGES * 2 - 1):]
save_memory_splits_pair(mem, uid, user_msg, ai_msg) ==
    LET extended == Get(mem, uid, <<>>)
                        \o <<Turn("user", user_msg), Turn("assistant", ai_msg)>>
    IN  Put(mem, uid, LastN(extended, MAX_MEMORY_MESSAGES * 2 - 1))

save_memory(mem, uid, user_msg, ai_msg) ==
    LET extended == Get(mem, uid, <<>>)
                        \o <<Turn("user", user_msg), Turn("assistant", ai_msg)>>
    IN  Put(mem, uid, LastN(extended, MAX_MEMORY_MESSAGES * 2))

\* ------------------------------------------------------------- /v8/chat
\* chat calling rate_limit before it validates the message
chat_limits_first(mem, reqs, stats, uid, message, t) ==
    LET msg == strip(message)
        s1  == [stats EXCEPT !.requests = @ + 1]
        rl  == rate_limit(reqs, s1, uid, t)
    IN  IF ~rl.ok
        THEN [status |-> "limited", response |-> <<"Chill for a sec">>,
              USER_REQUESTS |-> rl.USER_REQUESTS, STATS |-> rl.STATS, messages |-> <<>>]
        ELSE IF msg = <<>>
        THEN [status |-> "error", response |-> <<"Say something">>,
              USER_REQUESTS |-> rl.USER_REQUESTS, STATS |-> rl.STATS, messages |-> <<>>]
        ELSE IF StrLen(msg) > MAX_MESSAGE_LENGTH
        THEN [status |-> "error", response |-> <<"Message too long.">>,
              USER_REQUESTS |-> rl.USER_REQUESTS, STATS |-> rl.STATS, messages |-> <<>>]
        ELSE [status |-> "stream", response |-> <<>>,
              USER_REQUESTS |-> rl.USER_REQUESTS, STATS |-> rl.STATS,
              messages |-> build_messages(mem, uid, msg)]

\* chat with the increment of line 149 placed after the early returns and
\* repeated where the stream is set up
chat_counts_twice(mem, reqs, stats, uid, message, t) ==
    LET msg == strip(message)
        s1  == [stats EXCEPT !.requests = @ + 1]
        rl  == rate_limit(reqs, s1, uid, t)
    IN  IF msg = <<>>
        THEN [status |-> "error", response |-> <<"Say something">>,
              USER_REQUESTS |-> reqs, STATS |-> s1, messages |-> <<>>]
        ELSE IF StrLen(msg) > MAX_MESSAGE_LENGTH
        THEN [status |-> "error", response |-> <<"Message too long.">>,
              USER_REQUESTS |-> reqs, STATS |-> s1, messages |-> <<>>]
        ELSE IF ~rl.ok
        THEN [status |-> "limited", response |-> <<"Chill for a sec">>,
              USER_REQUESTS |-> rl.USER_REQUESTS, STATS |-> rl.STATS, messages |-> <<>>]
        ELSE [status |-> "stream", response |-> <<>>,
              USER_REQUESTS |-> rl.USER_REQUESTS,
              STATS |-> [rl.STATS EXCEPT !.requests = @ + 1],
              messages |-> build_messages(mem, uid, msg)]

\* chat measuring request.message where line 151 measures msg, and with >=
chat_validates_untrimmed(mem, reqs, stats, uid, message, t) ==
    LET msg == strip(message)
        s1  == [stats EXCEPT !.requests = @ + 1]
        rl  == rate_limit(reqs, s1, uid, t)
    IN  IF msg = <<>>
        THEN [status |-> "error", response |-> <<"Say something">>,
              USER_REQUESTS |-> reqs, STATS |-> s1, messages |-> <<>>]
        ELSE IF StrLen(message) >= MAX_MESSAGE_LENGTH
        THEN [status |-> "error", response |-> <<"Message too long.">>,
              USER_REQUESTS |-> reqs, STATS |-> s1, messages |-> <<>>]
        ELSE IF ~rl.ok
        THEN [status |-> "limited", response |-> <<"Chill for a sec">>,
              USER_REQUESTS |-> rl.USER_REQUESTS, STATS |-> rl.STATS, messages |-> <<>>]
        ELSE [status |-> "stream", response |-> <<>>,
              USER_REQUESTS |-> rl.USER_REQUESTS, STATS |-> rl.STATS,
              messages |-> build_messages(mem, uid, msg)]

\* The handler up to its return: the response and the globals it leaves.
chat(mem, reqs, stats, uid, message, t) ==
    LET msg == strip(message)
        s1  == [stats EXCEPT !.requests = @ + 1]
        rl  == rate_limit(reqs, s1, uid, t)
    IN  IF msg = <<>>
        THEN [status |-> "error", response |-> <<"Say something">>,
              USER_REQUESTS |-> reqs, STATS |-> s1, messages |-> <<>>]
        ELSE IF StrLen(msg) > MAX_MESSAGE_LENGTH
        THEN [status |-> "error", response |-> <<"Message too long.">>,
              USER_REQUESTS |-> reqs, STATS |-> s1, messages |-> <<>>]
        ELSE IF ~rl.ok
        THEN [status |-> "limited", response |-> <<"Chill for a sec">>,
              USER_REQUESTS |-> rl.USER_REQUESTS, STATS |-> rl.STATS, messages |-> <<>>]
        ELSE [status |-> "stream", response |-> <<>>,
              USER_REQUESTS |-> rl.USER_REQUESTS, STATS |-> rl.STATS,
              messages |-> build_messages(mem, uid, msg)]

\* ------------------------------------------------------------ /v8/reset
\* reset also forgetting the identity's request window
reset_clears_window(mem, reqs, stats, data) ==
    LET uid == Get(data, "uid", "guest")
    IN  [status |-> "success", response |-> <<"Chat cleared.">>, uid |-> uid,
         USER_MEMORY |-> Pop(mem, uid), USER_REQUESTS |-> Pop(reqs, uid), STATS |-> stats]

\* reset also starting the statistics afresh
reset_zeroes_stats(mem, reqs, stats, data) ==
    LET uid == Get(data, "uid", "guest")
    IN  [status |-> "success", response |-> <<"Chat cleared.">>, uid |-> uid,
         USER_MEMORY |-> Pop(mem, uid), USER_REQUESTS |-> reqs,
         STATS |-> [requests |-> 0, blocked |-> 0]]

\* reset with USER_MEMORY.pop(uid) in place of USER_MEMORY.pop(uid, None):
\* the KeyError of an absent identity is answered with status "error"
reset_requires_history(mem, reqs, stats, data) ==
    LET uid == Get(data, "uid", "guest")
    IN  IF uid \in DOMAIN mem
        THEN [status |-> "success", response |-> <<"Chat cleared.">>, uid |-> uid,
              USER_MEMORY |-> Pop(mem, uid), USER_REQUESTS |-> reqs, STATS |-> stats]
        ELSE [status |-> "error", response |-> <<"Internal Server Error">>, uid |-> uid,
              USER_MEMORY |-> mem, USER_REQUESTS |-> reqs, STATS |-> stats]

\* The handler up to its return: the response and the globals it leaves.
reset(mem, reqs, stats, data) ==
    LET uid == Get(data, "uid", "guest")
    IN  [status |-> "success", response |-> <<"Chat cleared.">>, uid |-> uid,
         USER_MEMORY |-> Pop(mem, uid), USER_REQUESTS |-> reqs, STATS |-> stats]

\* ------------------------------------------------------ stream_response
\* A generator object as stream_response(uid, messages, ...) creates it.
\*   pc        "created", "y135" (suspended at line 135), "y139" (at line 139),
\*             "done" (ran to its end), "closed" (ended by GeneratorExit)
\*   out       the fragments it has yielded, got: how many the consumer received
\*   posts     the calls of requests.post it has made
\*   closes    how often GeneratorExit was thrown into it
\*   rx, saved, err   history: upstream events consumed (a failed connection
\*             is the event "refused" or "http500"), save_memory called,
\*             <<>> or <<e>> for the exception the outer handler caught
NewGen(id, uid, messages) ==
    [id |-> id, uid |-> uid, messages |-> messages, full_response |-> <<>>, pc |-> "created",
     out |-> <<>>, got |-> 0, posts |-> 0, closes |-> 0,
     rx |-> <<>>, saved |-> FALSE, err |-> <<>>]

\* An upstream event is what one step of r.iter_lines() produces:
\*   kind "blank"        an empty keep-alive line
\*        "undecodable"  bytes that are not UTF-8 (chunk.decode raises)
\*        "comment"      a line that does not start with "data: "
\*        "done"         data: [DONE]
\*        "garbage"      data: followed by text that is not JSON
\*        "nopath"       JSON without choices[0].delta
\*        "nocontent"    a delta without the key content
\*        "null"         a delta whose content is null
\*        "content"      a delta whose content is the text in .text
\*        "eof"          the end of the response body
\*        "ioerror"      iter_lines raises (connection lost, read timeout)
Event(kind, text) == [kind |-> kind, text |-> text]

Skip(full)        == [k |-> "skip",  full |-> full, frag |-> <<>>, err |-> <<>>]
Break(full)       == [k |-> "break", full |-> full, frag |-> <<>>, err |-> <<>>]
Raise(full, e)    == [k |-> "raise", full |-> full, frag |-> <<>>, err |-> e]
Yield(full, frag) == [k |-> "yield", full |-> full, frag |-> frag, err |-> <<>>]

\* the loop body adding the new content in front of full_response
on_chunk_prepends(full, c) ==
    IF c.kind = "blank" THEN Skip(full)
    ELSE IF c.kind = "undecodable" THEN Raise(full, <<"codec can't decode">>)
    ELSE IF c.kind = "comment" THEN Skip(full)
    ELSE IF c.kind = "done" THEN Break(full)
    ELSE IF c.kind \in {"garbage", "nopath", "null"} THEN Skip(full)
    ELSE IF c.kind = "nocontent" THEN Skip(full)
    ELSE Yield(c.text \o full, c.text)

\* the loop body without the inner try: a frame that does not parse raises
on_chunk_raises(full, c) ==
    IF c.kind = "blank" THEN Skip(full)
    ELSE IF c.kind = "undecodable" THEN Raise(full, <<"codec can't decode">>)
    ELSE IF c.kind = "comment" THEN Skip(full)
    ELSE IF c.kind = "done" THEN Break(full)
    ELSE IF c.kind = "garbage" THEN Raise(full, <<"Expecting value">>)
    ELSE IF c.kind = "nopath" THEN Raise(full, <<"'choices'">>)
    ELSE IF c.kind = "null" THEN Raise(full, <<"can only concatenate str">>)
    ELSE IF c.kind = "nocontent" THEN Skip(full)
    ELSE Yield(full \o c.text, c.text)

\* The body of the for loop (lines 123-136) on one chunk, full_response = full.
on_chunk(full, c) ==
    IF c.kind = "blank" THEN Skip(full)
    ELSE IF c.kind = "undecodable" THEN Raise(full, <<"codec can't decode">>)
    ELSE IF c.kind = "comment" THEN Skip(full)
    ELSE IF c.kind = "done" THEN Break(full)
    ELSE IF c.kind \in {"garbage", "nopath", "null"} THEN Skip(full)
    ELSE IF c.kind = "nocontent" THEN Skip(full)
    ELSE Yield(full \o c.text, c.text)

\* The for loop from event i on, up to the next yield, the end of the loop or
\* an exception; n is the number of events consumed, "starved" when evs ran
\* out before any of these.
RECURSIVE for_loop(_, _, _)
for_loop(full, evs, i) ==
    IF i > Len(evs) THEN [k |-> "starved", full |-> full, frag |-> <<>>, err |-> <<>>, n |-> i - 1]
    ELSE IF evs[i].kind = "eof"
    THEN [k |-> "end", full |-> full, frag |-> <<>>, err |-> <<>>, n |-> i]
    ELSE IF evs[i].kind = "ioerror"
    THEN [k |-> "raise", full |-> full, frag |-> <<>>, err |-> evs[i].text, n |-> i]
    ELSE LET r == on_chunk(full, evs[i])
         IN  CASE r.k = "skip"  -> for_loop(r.full, evs, i + 1)
               [] r.k = "break" -> [k |-> "end", full |-> r.full, frag |-> <<>>, err |-> <<>>, n |-> i]
               [] OTHER         -> [k |-> r.k, full |-> r.full, frag |-> r.frag, err |-> r.err, n |-> i]

\* Line 135: the fragment is yielded after it was added to full_response.
on_yield(g, full, frag) ==
    [gen |-> [g EXCEPT !.full_response = full, !.out = Append(@, frag), !.pc = "y135"],
     commit |-> FALSE]

\* Line 137, reached when the loop ended by [DONE] or by the end of the body.
on_end(g, full) ==
    [gen |-> [g EXCEPT !.full_response = full, !.pc = "done", !.saved = TRUE],
     commit |-> TRUE]

\* the handler of the outer try yielding the error and going back to the loop
on_exception_resumes(g, e) ==
    [gen |-> [g EXCEPT !.out = Append(@, ErrorFragment(e)), !.pc = "y135", !.err = <<e>>],
     commit |-> FALSE]

\* the handler of the outer try also saving what it has, error text included
on_exception_commits(g, e) ==
    [gen |-> [g EXCEPT !.out = Append(@, ErrorFragment(e)), !.pc = "y139", !.err = <<e>>,
                       !.full_response = @ \o ErrorFragment(e), !.saved = TRUE],
     commit |-> TRUE]

\* Lines 138-139: the handler of the outer try yields the error fragment.
on_exception(g, e) ==
    [gen |-> [g EXCEPT !.out = Append(@, ErrorFragment(e)), !.pc = "y139", !.err = <<e>>],
     commit |-> FALSE]

\* Lines 122-139 from the loop's current position.
run_loop(g, evs) ==
    LET r == for_loop(g.full_response, evs, 1)
    IN  CASE r.k = "yield" -> on_yield(g, r.full, r.frag)
          [] r.k = "end"   -> on_end(g, r.full)
          [] r.k = "raise" -> on_exception(g, r.err)
          [] OTHER         -> [gen |-> g, commit |-> FALSE]

\* requests.post and raise_for_status (lines 120-121) for connection outcome conn.
ConnError(conn) ==
    CASE conn = "refused" -> <<"Connection refused">>
      [] conn = "http500" -> <<"500 Server Error">>
      [] OTHER            -> <<>>

\* The consumer asks for the next fragment (__anext__).
stream_response(g, conn, evs) ==
    CASE g.pc = "created" ->
            LET g1 == [g EXCEPT !.posts = @ + 1]
            IN  IF conn = "ok" THEN run_loop(g1, evs) ELSE on_exception(g1, ConnError(conn))
      [] g.pc = "y135" -> run_loop(g, evs)
      [] OTHER -> [gen |-> [g EXCEPT !.pc = "done"], commit |-> FALSE]

\* GeneratorExit is thrown into the generator (the consumer stopped iterating).
\* At line 135 the bare except of line 136 catches it and the loop goes on; a
\* generator that yields again has ignored the exit and stays suspended until
\* the abandoned object is finalised, which throws GeneratorExit once more and
\* then destroys it.
generator_exit(g, evs) ==
    LET g1 == [g EXCEPT !.closes = @ + 1]
        r  == run_loop(g1, evs)
    IN  IF g.pc = "y135"
        THEN IF r.gen.pc # "done" /\ g1.closes >= 2
             THEN [gen |-> [r.gen EXCEPT !.pc = "closed"], commit |-> FALSE]
             ELSE r
        ELSE [gen |-> [g1 EXCEPT !.pc = "closed"], commit |-> FALSE]

\* Whether evs is exactly what the generator consumes in its next run.
LoopRuns(g, conn) == (g.pc = "created" /\ conn = "ok") \/ g.pc = "y135"

Consumes(g, conn, evs) ==
    IF LoopRuns(g, conn)
    THEN LET r == for_loop(g.full_response, evs, 1)
         IN  r.k # "starved" /\ r.n = Len(evs)
    ELSE evs = <<>>

Ended(g) == g.pc \in {"done", "closed"}

\* The chunks among the events s: what the upstream sent before the stream's end.
Chunks(s) ==
    SelectSeq(s, LAMBDA e : e.kind \notin {"eof", "ioerror", "done", "refused", "http500"})

\* ----------------------------------------------------------------- actions
Reply(op, status, response) ==
    [op |-> op, status |-> status, response |-> response]

Attempt(t, raw, status) == [t |-> t, message |-> raw, status |-> status]

\* POST /v8/chat with body {message: raw, uid: u}; fresh is the uuid4 drawn
\* when u is missing.  maxReq and maxFlight bound the run.
Chat(u, fresh, raw, maxReq, maxFlight) ==
    LET uid == get_user_id(u, fresh)
        c   == chat(USER_MEMORY, USER_REQUESTS, STATS, uid, raw, now)
        id  == c.STATS.requests
    IN  /\ STATS.requests < maxReq
        /\ c.status = "stream" => Cardinality(DOMAIN gens) < maxFlight
        /\ USER_REQUESTS' = c.USER_REQUESTS
        /\ STATS' = c.STATS
        /\ gens' = IF c.status = "stream"
                   THEN Put(gens, id, NewGen(id, uid, c.messages))
                   ELSE gens
        /\ reply' = Reply("chat", c.status, c.response)
        /\ attempts' = Put(attempts, uid,
                            Append(Get(attempts, uid, <<>>), Attempt(now, raw, c.status)))
        /\ UNCHANGED <<USER_MEMORY, clock, fin, commits>>

\* a generator that commits by storing the history it was given in its
\* prompt, extended by its exchange, in place of calling save_memory
Settle_writes_prompt_back(g, r, delivered, evs) ==
    LET g2 == [r.gen EXCEPT !.got = IF delivered THEN Len(r.gen.out) ELSE @,
                            !.rx = @ \o evs]
        user_msg == g.messages[Len(g.messages)].content
        pair == <<Turn("user", user_msg), Turn("assistant", r.gen.full_response)>>
    IN  /\ USER_MEMORY' = IF r.commit
                          THEN Put(USER_MEMORY, g.uid,
                                   LastN(SubSeq(g.messages, 2, Len(g.messages) - 1) \o pair,
                                         MAX_MEMORY_MESSAGES * 2))
                          ELSE USER_MEMORY
        /\ commits' = IF r.commit
                      THEN Put(commits, g.uid, Get(commits, g.uid, <<>>) \o pair)
                      ELSE commits
        /\ gens' = IF Ended(g2) THEN Pop(gens, g.id) ELSE Put(gens, g.id, g2)
        /\ fin' = IF Ended(g2) THEN <<g2>> ELSE fin
        /\ UNCHANGED <<USER_REQUESTS, STATS, clock, reply, attempts>>

\* What a run of generator g that ended in r leaves behind.
Settle(g, r, delivered, evs) ==
    LET g2 == [r.gen EXCEPT !.got = IF delivered THEN Len(r.gen.out) ELSE @,
                            !.rx = @ \o evs]
        user_msg == g.messages[Len(g.messages)].content
    IN  /\ USER_MEMORY' = IF r.commit
                          THEN save_memory(USER_MEMORY, g.uid, user_msg, r.gen.full_response)
                          ELSE USER_MEMORY
        /\ commits' = IF r.commit
                      THEN Put(commits, g.uid,
                               Get(commits, g.uid, <<>>)
                                 \o <<Turn("user", user_msg),
                                      Turn("assistant", r.gen.full_response)>>)
                      ELSE commits
        /\ gens' = IF Ended(g2) THEN Pop(gens, g.id) ELSE Put(gens, g.id, g2)
        /\ fin' = IF Ended(g2) THEN <<g2>> ELSE fin
        /\ UNCHANGED <<USER_REQUESTS, STATS, clock, reply, attempts>>

\* The response's consumer takes the next fragment of generator id.
Resume(id, conn, evs, maxRx) ==
    /\ id \in DOMAIN gens
    /\ LET g == gens[id]
       IN  /\ g.closes = 0
           /\ g.pc = "created" \/ conn = "ok"
           /\ Consumes(g, conn, evs)
           /\ Len(Chunks(g.rx \o evs)) <= maxRx
           /\ Settle(g, stream_response(g, conn, evs), TRUE,
                     IF g.pc = "created" /\ conn # "ok" THEN <<Event(conn, <<>>)>> ELSE evs)

\* The consumer of generator id is gone: the generator is closed.
Close(id, evs, maxRx) ==
    /\ id \in DOMAIN gens
    /\ LET g == gens[id]
       IN  /\ g.closes < 2
           /\ Consumes(g, IF g.pc = "y135" THEN "ok" ELSE "none", evs)
           /\ Len(Chunks(g.rx \o evs)) <= maxRx
           /\ Settle(g, generator_exit(g, evs), FALSE, evs)

\* POST /v8/reset with JSON body data.
Reset(data) ==
    LET r == reset(USER_MEMORY, USER_REQUESTS, STATS, data)
    IN  /\ USER_MEMORY' = r.USER_MEMORY
        /\ USER_REQUESTS' = r.USER_REQUESTS
        /\ STATS' = r.STATS
        /\ commits' = Pop(commits, r.uid)
        /\ reply' = Reply("reset", r.status, r.response)
        /\ UNCHANGED <<clock, gens, fin, attempts>>

\* GET /v8/stats
Stats ==
    /\ reply' = Reply("stats", "ok", <<STATS.requests, STATS.blocked>>)
    /\ UNCHANGED <<USER_MEMORY, USER_REQUESTS, STATS, clock, gens, fin, commits, attempts>>

\* d seconds pass.
Tick(d, maxClock) ==
    /\ clock + d <= maxClock
    /\ clock' = clock + d
    /\ UNCHANGED <<USER_MEMORY, USER_REQUESTS, STATS, gens, fin, reply, commits, attempts>>

Init ==
    /\ USER_MEMORY = EmptyDict
    /\ USER_REQUESTS = EmptyDict
    /\ STATS = [requests |-> 0, blocked |-> 0]
    /\ clock = 0
    /\ gens = EmptyDict
    /\ fin = <<>>
    /\ reply = Reply("none", "none", <<>>)
    /\ commits = EmptyDict
    /\ attempts = EmptyDict

\* ------------------------------------------------------- the environment
\* Sequences over S of length 0..n.
SeqsUpTo(S, n) == UNION {[1..k -> S] : k \in 0..n}

ContentA == Event("content", <<"A">>)
ContentB == Event("content", <<"B">>)
IoError  == Event("ioerror", <<"Read timed out.">>)

\* -- Spec: a named identity and anonymous callers, every kind of message,
\*    two streams in flight.  Time stands still: what the passing of time
\*    changes is the subject of SpecRate.
MaxRequests == 2
MaxInFlight == 2
MaxChunks   == 1

\* str(uuid.uuid4()): every call draws an identity nobody had before; the
\* one drawn by the request about to be counted.
uuid4(n)    == "uuid4-" \o ToString(n)
Uuid        == uuid4(STATS.requests + 1)
UidInputs   == {"u1", ""}
Messages    == {<<" ", "hi", " ">>, <<" ">>, <<"x2999", "hi">>}
ConnOutcomes == {"ok", "refused"}
Events      == {ContentA, Event("done", <<>>)}
ResetBodies == {[uid |-> "u1"], EmptyDict}

Next ==
    \/ \E u \in UidInputs, raw \in Messages : Chat(u, Uuid, raw, MaxRequests, MaxInFlight)
    \/ \E id \in DOMAIN gens, conn \in ConnOutcomes, evs \in SeqsUpTo(Events, 1) :
          Resume(id, conn, evs, MaxChunks)
    \/ \E id \in DOMAIN gens, evs \in SeqsUpTo(Events, 1) : Close(id, evs, MaxChunks)
    \/ \E data \in ResetBodies : Reset(data)
    \/ Stats

Spec == Init /\ [][Next]_vars

\* -- SpecStream: one admitted request of u1 and every kind of upstream event.
\*    It starts in the state POST /v8/chat leaves when it admits the first
\*    request of a fresh process.
StreamChunks == 3
StreamBurst  == 2

StreamEvents ==
    {ContentA, ContentB, IoError, Event("done", <<>>), Event("eof", <<>>),
     Event("blank", <<>>), Event("undecodable", <<>>), Event("comment", <<>>),
     Event("garbage", <<>>), Event("nopath", <<>>), Event("nocontent", <<>>),
     Event("null", <<>>)}
StreamConnOutcomes == {"ok", "refused", "http500"}

\* The events that neither suspend nor end the generator, and what it may
\* consume in one run: up to StreamBurst events, all but the last of them quiet.
QuietEvents ==
    {Event("blank", <<>>), Event("comment", <<>>), Event("garbage", <<>>),
     Event("nopath", <<>>), Event("nocontent", <<>>), Event("null", <<>>)}
StreamRuns ==
    {<<>>} \cup {q \o <<e>> : q \in SeqsUpTo(QuietEvents, StreamBurst - 1), e \in StreamEvents}

InitStream ==
    LET c == chat(EmptyDict, EmptyDict, [requests |-> 0, blocked |-> 0], "u1", <<" ", "hi">>, 0)
    IN  /\ USER_MEMORY = EmptyDict
        /\ USER_REQUESTS = c.USER_REQUESTS
        /\ STATS = c.STATS
        /\ clock = 0
        /\ gens = Put(EmptyDict, 1, NewGen(1, "u1", c.messages))
        /\ fin = <<>>
        /\ reply = Reply("chat", c.status, c.response)
        /\ commits = EmptyDict
        /\ attempts = Put(EmptyDict, "u1", <<Attempt(0, <<" ", "hi">>, c.status)>>)

NextStream ==
    \/ \E id \in DOMAIN gens, conn \in StreamConnOutcomes, evs \in StreamRuns :
          Resume(id, conn, evs, StreamChunks)
    \/ \E id \in DOMAIN gens, evs \in StreamRuns : Close(id, evs, StreamChunks)

SpecStream == InitStream /\ [][NextStream]_vars

\* A client that sends its next chat request only when its previous response
\* has been consumed to the end.
SequentialChat(u, raw, maxReq) ==
    /\ gens = EmptyDict
    /\ Chat(u, Uuid, raw, maxReq, 1)

\* -- SpecRate: one identity sends the same message again and again while
\*    time passes; every admitted stream is consumed to its end.
RateRequests == 32
RateClock    == 60

RateTicks == {30}

NextRate ==
    \/ SequentialChat("u1", <<"hi">>, RateRequests)
    \/ \E id \in DOMAIN gens : Resume(id, "ok", <<Event("done", <<>>)>>, MaxChunks)
    \/ \E d \in RateTicks : Tick(d, RateClock)

SpecRate == Init /\ [][NextRate]_vars

\* -- SpecMem: one identity sends numbered messages, so that every committed
\*    pair is distinct; every admitted stream is consumed to its end.
MemRequests == 22

NumberedMessage(k) == <<" ", ToString(k)>>

NextMem ==
    \/ SequentialChat("u1", NumberedMessage(STATS.requests + 1), MemRequests)
    \/ \E id \in DOMAIN gens : Resume(id, "ok", <<Event("done", <<>>)>>, MaxChunks)
    \/ Reset([uid |-> "u1"])

SpecMem == Init /\ [][NextMem]_vars

\* -- SpecValid: one identity sends messages whose length lies at the limits
\*    of the validation of lines 150-151, padded with whitespace or not.
ValidRequests == 3

BoundaryMessages ==
    {<<>>, <<" ", " ">>,
     <<"x">>, <<" ", "x", " ", "x", " ">>,
     <<"x2999">>, <<"x2999", " ">>,
     <<"x2999", "x">>, <<" ", "x2999", "x", " ">>,
     <<"x2999", "hi">>, <<" ", "x2999", "hi">>}

NextValid ==
    \/ \E raw \in BoundaryMessages : SequentialChat("u1", raw, ValidRequests)
    \/ \E id \in DOMAIN gens : Resume(id, "ok", <<Event("done", <<>>)>>, MaxChunks)

SpecValid == Init /\ [][NextValid]_vars

\* -- SpecLimit: one identity fills its request window but for one slot with
\*    exchanges that complete; from then on it sends every kind of message,
\*    its streams may fail to connect, and resets and stats reads come in.
LimitRequests == 32

Filling == STATS.requests < REQUESTS_PER_MINUTE - 1

LimitMessages == IF Filling THEN {<<"hi">>} ELSE Messages
LimitConnOutcomes == IF Filling THEN {"ok"} ELSE ConnOutcomes

NextLimit ==
    \/ \E raw \in LimitMessages : SequentialChat("u1", raw, LimitRequests)
    \/ \E id \in DOMAIN gens, conn \in LimitConnOutcomes,
           evs \in SeqsUpTo({Event("done", <<>>)}, 1) : Resume(id, conn, evs, MaxChunks)
    \/ ~Filling /\ Reset([uid |-> "u1"])
    \/ ~Filling /\ Stats

SpecLimit == Init /\ [][NextLimit]_vars

\* -- SpecWindow: one identity fills its request window but for one slot at
\*    time 0; from then on time passes in steps of half a window between
\*    its requests, until the first timestamps are a window and a half old.
WindowRequests == 35
WindowClock    == 90

WindowTicks == {WINDOW_SECONDS \div 2}

NextWindow ==
    \/ SequentialChat("u1", <<"hi">>, WindowRequests)
    \/ \E id \in DOMAIN gens : Resume(id, "ok", <<Event("done", <<>>)>>, MaxChunks)
    \/ \E d \in WindowTicks : ~Filling /\ Tick(d, WindowClock)

SpecWindow == Init /\ [][NextWindow]_vars

\* -- SpecConc: one identity sends numbered messages, first one exchange
\*    after the other until its history is one pair short of the cap, then
\*    several at a time; the upstream answers with nothing or echoes the
\*    request's message, so that every turn names the request it is from.
ConcRequests == 22
ConcInFlight == 2

Warming == STATS.requests < MAX_MEMORY_MESSAGES - 1

Echo(g) == Event("content", g.messages[Len(g.messages)].content)

ConcEvents(g) == IF Warming THEN {Event("done", <<>>)} ELSE {Echo(g), Event("done", <<>>)}

NextConc ==
    \/ Chat("u1", Uuid, NumberedMessage(STATS.requests + 1), ConcRequests,
            IF Warming THEN 1 ELSE ConcInFlight)
    \/ \E id \in DOMAIN gens :
          \E evs \in SeqsUpTo(ConcEvents(gens[id]), 1) : Resume(id, "ok", evs, MaxChunks)

SpecConc == Init /\ [][NextConc]_vars

\* ================================================================ properties
History(u) == Get(USER_MEMORY, u, <<>>)
Window(u)  == Get(USER_REQUESTS, u, <<>>)
Log(u)     == Get(attempts, u, <<>>)

Min(a, b) == IF a < b THEN a ELSE b

\* Identity u's chat handler runs in this step; the status it answers with.
ChatStep(u)   == Len(Get(attempts', u, <<>>)) = Len(Log(u)) + 1
ChatStatus(u) == attempts'[u][Len(attempts'[u])].status

\* The generators that exist: the live ones and the one that ended last.
Generators == {gens[id] : id \in DOMAIN gens} \cup {fin[i] : i \in DOMAIN fin}

\* C1: after N commits for an identity with no reset in between, its stored
\* history has exactly min(2N, 2 * MAX_MEMORY_MESSAGES) turns, and they are
\* the most recently committed turns in commit order.
C1_HistoryIsTrailingWindow ==
    \A u \in (DOMAIN USER_MEMORY) \cup (DOMAIN commits) :
        LET log  == Get(commits, u, <<>>)
            N    == Len(log) \div 2
            keep == Min(2 * N, 2 * MAX_MEMORY_MESSAGES)
        IN  /\ Len(History(u)) = keep
            /\ \A i \in 1..keep : History(u)[i] = log[Len(log) - keep + i]

\* More than MAX_MEMORY_MESSAGES pairs were committed and the oldest is gone.
C1_Evicted ==
    \E u \in DOMAIN commits :
        /\ Len(commits[u]) > 2 * MAX_MEMORY_MESSAGES
        /\ Len(History(u)) = 2 * MAX_MEMORY_MESSAGES
        /\ History(u)[1] # commits[u][1]

C2_WindowBounded == \A u \in DOMAIN USER_REQUESTS : Len(USER_REQUESTS[u]) <= REQUESTS_PER_MINUTE

C2_RejectedNotRecorded ==
    \A u \in DOMAIN attempts' :
        (ChatStep(u) /\ ChatStatus(u) = "limited") =>
            Get(USER_REQUESTS', u, <<>>)
                = SelectSeq(Window(u), LAMBDA x : clock - x < WINDOW_SECONDS)

\* C2: every identity's request window holds at most REQUESTS_PER_MINUTE
\* timestamps in every reachable state, and a chat request that the rate
\* limiter rejects leaves the window with exactly the entries that survive
\* pruning: the rejected request is not recorded.
C2_WindowAtMostLimit == []C2_WindowBounded /\ [][C2_RejectedNotRecorded]_vars

\* A request was rejected while the window was full.
C2_RejectedAtFullWindow ==
    \E u \in DOMAIN attempts :
        /\ Log(u)[Len(Log(u))].status = "limited"
        /\ Len(Window(u)) = REQUESTS_PER_MINUTE

\* The chat requests of u that passed validation, oldest first.
ValidLog(u) ==
    SelectSeq(Log(u), LAMBDA a : strip(a.message) # <<>>
                                 /\ StrLen(strip(a.message)) <= MAX_MESSAGE_LENGTH)

C3_FirstThirtyStream ==
    \A u \in DOMAIN attempts :
        LET a == ValidLog(u)
        IN  \A i \in 1..Min(Len(a), REQUESTS_PER_MINUTE + 1) :
                a[i].t - a[1].t < WINDOW_SECONDS =>
                    a[i].status = IF i <= REQUESTS_PER_MINUTE THEN "stream" ELSE "limited"

C3_OutcomeOfRequest ==
    \A u \in DOMAIN attempts' :
        ChatStep(u) =>
            /\ ChatStatus(u) = "limited" =>
                  /\ reply'.status = "limited"
                  /\ STATS'.blocked = STATS.blocked + 1
                  /\ gens' = gens /\ fin' = fin
                  /\ USER_MEMORY' = USER_MEMORY
            /\ ChatStatus(u) = "stream" =>
                  /\ STATS'.blocked = STATS.blocked
                  /\ \E id \in (DOMAIN gens') \ (DOMAIN gens) :
                        gens'[id].uid = u /\ gens'[id].pc = "created"

\* C3: of the first 31 valid chat requests of an identity, sent within one
\* minute, requests 1 to 30 each get a stream (a generator is created for
\* them) and request 31 is answered "limited"; a "limited" answer adds
\* exactly 1 to STATS.blocked, creates no generator (no upstream call) and
\* leaves every history unchanged.
C3_ThirtyFirstLimited == []C3_FirstThirtyStream /\ [][C3_OutcomeOfRequest]_vars

\* Identity u sent 31 valid requests within a minute and the last was limited.
C3_ThirtyOneWithinMinute ==
    \E u \in DOMAIN attempts :
        /\ Len(ValidLog(u)) >= REQUESTS_PER_MINUTE + 1
        /\ ValidLog(u)[REQUESTS_PER_MINUTE + 1].t - ValidLog(u)[1].t < WINDOW_SECONDS
        /\ ValidLog(u)[REQUESTS_PER_MINUTE + 1].status = "limited"
        /\ STATS.blocked >= 1

\* The message and the status of the chat request handled in this step.
ChatMessage(u) == attempts'[u][Len(attempts'[u])].message

InvalidMessage(m) == strip(m) = <<>> \/ StrLen(strip(m)) > MAX_MESSAGE_LENGTH

\* C4 as stated: a chat request whose trimmed message is empty or longer than
\* MAX_MESSAGE_LENGTH is answered with status "error" and changes no state:
\* no history, no request window, neither counter, no generator.
C4_InvalidMutatesNothing ==
    [][\A u \in DOMAIN attempts' :
          (ChatStep(u) /\ InvalidMessage(ChatMessage(u))) =>
              /\ reply'.status = "error"
              /\ USER_MEMORY' = USER_MEMORY
              /\ USER_REQUESTS' = USER_REQUESTS
              /\ STATS' = STATS
              /\ gens' = gens /\ fin' = fin]_vars

\* C4 amended: a chat request whose trimmed message is empty or longer than
\* MAX_MESSAGE_LENGTH is answered with status "error", adds exactly 1 to
\* STATS.requests and changes nothing else: no history, no request window,
\* not STATS.blocked, no generator (no upstream call).
C4_InvalidOnlyCounted ==
    [][\A u \in DOMAIN attempts' :
          (ChatStep(u) /\ InvalidMessage(ChatMessage(u))) =>
              /\ reply'.status = "error"
              /\ USER_MEMORY' = USER_MEMORY
              /\ USER_REQUESTS' = USER_REQUESTS
              /\ STATS' = [STATS EXCEPT !.requests = @ + 1]
              /\ gens' = gens /\ fin' = fin]_vars

\* An identity was refused once for an empty and once for an oversized message.
C4_BothRejections ==
    \E u \in DOMAIN attempts :
        \E i, j \in DOMAIN Log(u) :
            /\ strip(Log(u)[i].message) = <<>> /\ Log(u)[i].status = "error"
            /\ StrLen(strip(Log(u)[j].message)) > MAX_MESSAGE_LENGTH
            /\ Log(u)[j].status = "error"
            /\ STATS.requests = 2

\* Generator id runs in this step; what it is after the step.
Moved(id) == id \notin DOMAIN gens' \/ gens'[id] # gens[id]
After(id) == IF id \in DOMAIN gens' THEN gens'[id] ELSE fin'[1]

\* The upstream events that are transport failures; g met one.
TransportFailures == {"refused", "http500", "ioerror"}
TransportFailed(g) == \E i \in DOMAIN g.rx : g.rx[i].kind \in TransportFailures

\* C5 as stated: when a stream that met a transport failure has ended, the
\* identity's history has gained the pair of that request.
C5_FailedStreamCommitted ==
    \A i \in DOMAIN fin :
        (TransportFailed(fin[i]) /\ fin[i].pc = "done") =>
            /\ Len(History(fin[i].uid)) >= 2
            /\ History(fin[i].uid)[Len(History(fin[i].uid))].role = "assistant"

\* C5 amended: a stream that terminates through a transport failure commits
\* nothing: no step of a generator that catches, or has caught, a transport
\* failure changes any history, so neither the partial text nor the error
\* fragment is stored.
C5_FailedStreamNotCommitted ==
    [][\A id \in DOMAIN gens :
          (Moved(id) /\ TransportFailed(After(id))) =>
              USER_MEMORY' = USER_MEMORY /\ commits' = commits]_vars

\* A stream failed after two fragments were delivered, ended, and the history
\* of its identity is still empty.
C5_FailedAfterFragments ==
    \E i \in DOMAIN fin :
        /\ TransportFailed(fin[i]) /\ fin[i].pc = "done"
        /\ fin[i].got = 3
        /\ History(fin[i].uid) = <<>>

\* C6: a generator whose consumer stopped iterating after at least one
\* fragment was delivered never commits: no step it takes from then on
\* changes any history.
C6_CancelledNeverCommits ==
    [][\A id \in DOMAIN gens :
          (Moved(id) /\ After(id).closes > 0 /\ After(id).got > 0) =>
              USER_MEMORY' = USER_MEMORY]_vars

TotalChats == Cardinality({<<u, i>> \in (DOMAIN attempts) \X (1..MaxRequests + 1) :
                               i <= Len(attempts[u])})

C7_CountedOnce ==
    \A u \in DOMAIN attempts' :
        (ChatStep(u) /\ ChatStatus(u) = "stream") => STATS'.requests = STATS.requests + 1

C7_StreamDoesNotCount ==
    (\A u \in DOMAIN attempts' : ~ChatStep(u)) => STATS'.requests = STATS.requests

C7_FirstExchange ==
    (/\ TotalChats = 1
     /\ fin' # fin
     /\ fin'[1].rx # <<>>
     /\ fin'[1].rx[Len(fin'[1].rx)].kind \in {"done", "eof"}) =>
        LET u == fin'[1].uid
            h == Get(USER_MEMORY', u, <<>>)
        IN  /\ STATS'.requests = 1
            /\ Len(h) = 2
            /\ h[1] = Turn("user", strip(Log(u)[1].message))
            /\ h[2].role = "assistant"

\* C7: the chat request that gets a stream adds exactly 1 to STATS.requests
\* when it is handled, and no step of the stream (fragments, completion,
\* failure, cancellation) changes the counter; when the only chat request so
\* far is a valid one and its stream completes, STATS.requests is 1 and the
\* identity's history is exactly one user/assistant pair.
C7_RequestsCountedOnce ==
    [][C7_CountedOnce /\ C7_StreamDoesNotCount /\ C7_FirstExchange]_vars

\* One request of u1, streamed to completion: counter 1, one pair stored.
C7_OneExchange ==
    /\ TotalChats = 1 /\ STATS.requests = 1
    /\ fin # <<>> /\ fin[1].uid = "u1" /\ fin[1].pc = "done" /\ fin[1].saved
    /\ Len(History("u1")) = 2

\* The content deltas of the valid frames among the events rx, in order.
Deltas(rx) ==
    LET valid == SelectSeq(rx, LAMBDA e : e.kind = "content")
    IN  [i \in 1..Len(valid) |-> valid[i].text]

RECURSIVE Concat(_)
Concat(fs) == IF fs = <<>> THEN <<>> ELSE Head(fs) \o Concat(Tail(fs))

\* The fragments the consumer of g received.
Delivered(g) == SubSeq(g.out, 1, g.got)

LastKind(g) == IF g.rx = <<>> THEN "none" ELSE g.rx[Len(g.rx)].kind

\* Generator id ends in this step with everything in rx received; then the
\* last two turns of its identity's history are its pair, the assistant
\* content being the concatenation of the valid deltas.
CommitsConcatenation(id) ==
    LET g == After(id)
        h == Get(USER_MEMORY', g.uid, <<>>)
    IN  /\ Len(h) >= 2
        /\ h[Len(h) - 1] = Turn("user", gens[id].messages[Len(gens[id].messages)].content)
        /\ h[Len(h)] = Turn("assistant", Concat(Deltas(g.rx)))

C8_DeliveredInOrder ==
    \A g \in Generators :
        (g.closes = 0 /\ (g.pc = "y135" \/ LastKind(g) \in {"done", "eof"})) =>
            Delivered(g) = Deltas(g.rx)

C8_CommitOnEnd ==
    \A id \in DOMAIN gens :
        (Moved(id) /\ After(id).closes = 0 /\ LastKind(After(id)) \in {"done", "eof"}) =>
            CommitsConcatenation(id)

\* C8: for a stream its consumer iterates to a normal end ([DONE] or the end
\* of the body), the fragments delivered are exactly the content deltas of
\* the valid frames received, in arrival order, and the assistant turn that
\* is committed holds their concatenation in that order (empty when none).
C8_FragmentsAndCommit == []C8_DeliveredInOrder /\ [][C8_CommitOnEnd]_vars

\* Frames A, B, [DONE] gave the fragments A, B and committed "AB".
C8_RoundTripAB ==
    /\ fin # <<>>
    /\ fin[1].rx = <<ContentA, ContentB, Event("done", <<>>)>>
    /\ Delivered(fin[1]) = << <<"A">>, <<"B">> >>
    /\ History("u1") = <<Turn("user", <<"hi">>), Turn("assistant", <<"A", "B">>)>>

ErrorFragmentsOf(g) == {i \in DOMAIN g.out : IsErrorFragment(g.out[i])}

\* C9: a generator that met a transport failure, before the first frame or
\* after some fragments, has yielded exactly one error fragment, as the last
\* element of its fragment sequence; it consumed nothing from the upstream
\* after the failure and made a single upstream request (no retry).  A
\* generator that met no failure has yielded no error fragment.
C9_OneFinalErrorFragment ==
    \A g \in Generators :
        /\ g.posts <= 1
        /\ TransportFailed(g) =>
              /\ LastKind(g) \in TransportFailures
              /\ Cardinality(ErrorFragmentsOf(g)) = 1
              /\ IsErrorFragment(g.out[Len(g.out)])
              /\ g.closes = 0 => g.got = Len(g.out)
              /\ g.pc \in {"y139", "done", "closed"}
              /\ g.posts = 1
        /\ (\A i \in DOMAIN g.rx : g.rx[i].kind \notin TransportFailures \cup {"undecodable"}) =>
              ErrorFragmentsOf(g) = {}

\* The connection was lost after two fragments; the stream has ended.
C9_FailedMidStream ==
    /\ fin # <<>>
    /\ fin[1].rx = <<ContentA, ContentB, IoError>>
    /\ Delivered(fin[1]) = << <<"A">>, <<"B">>, ErrorFragment(<<"Read timed out.">>) >>
    /\ fin[1].pc = "done"

ParseFailures == {"garbage", "nopath"}

C10_SkippedSilently ==
    \A g \in Generators :
        (/\ g.closes = 0
         /\ \E i \in DOMAIN g.rx : g.rx[i].kind \in ParseFailures
         /\ \A i \in DOMAIN g.rx : g.rx[i].kind \notin TransportFailures \cup {"undecodable"}) =>
            /\ g.err = <<>> /\ g.pc # "y139"
            /\ ErrorFragmentsOf(g) = {}
            /\ Delivered(g) = Deltas(g.rx)
            /\ g.pc \in {"done", "closed"} => LastKind(g) \in {"done", "eof"}

C10_CommitOnEnd ==
    \A id \in DOMAIN gens :
        (/\ Moved(id) /\ After(id).closes = 0
         /\ \E i \in DOMAIN After(id).rx : After(id).rx[i].kind \in ParseFailures
         /\ LastKind(After(id)) \in {"done", "eof"}) =>
            CommitsConcatenation(id)

\* C10: a frame that does not parse (malformed JSON, or JSON without the
\* delta path) does not end the stream, wherever it arrives: the generator
\* goes on consuming frames until [DONE], the end of the body or a failure,
\* yields the fragments of the valid frames only and no error fragment, and
\* on completion commits the concatenation of the valid fragments only.
C10_MalformedFrameSkipped == []C10_SkippedSilently /\ [][C10_CommitOnEnd]_vars

\* A garbage frame between two valid frames: both fragments, "AB" committed.
C10_GarbageBetweenValid ==
    /\ fin # <<>>
    /\ fin[1].rx = <<ContentA, Event("garbage", <<>>), ContentB, Event("done", <<>>)>>
    /\ Delivered(fin[1]) = << <<"A">>, <<"B">> >>
    /\ History("u1") = <<Turn("user", <<"hi">>), Turn("assistant", <<"A", "B">>)>>

\* The identities the process has heard of, and a reset request for each.
Identities == (DOMAIN USER_MEMORY) \cup (DOMAIN USER_REQUESTS) \cup {"guest"}
AnyResetBody == ResetBodies \cup {[uid |-> u] : u \in Identities}

\* What reset(data) leaves when it runs in the current state, and what a
\* second reset(data) leaves after it.
ResetNow(data) == reset(USER_MEMORY, USER_REQUESTS, STATS, data)
ResetTwice(data) ==
    reset(ResetNow(data).USER_MEMORY, ResetNow(data).USER_REQUESTS, ResetNow(data).STATS, data)

C11_ResetOutcome ==
    \A data \in AnyResetBody :
        LET r == ResetNow(data)
        IN  /\ r.status = "success"
            /\ r.uid \notin DOMAIN USER_MEMORY =>
                  /\ r.USER_MEMORY = USER_MEMORY
                  /\ r.USER_REQUESTS = USER_REQUESTS
                  /\ r.STATS = STATS
            /\ ResetTwice(data) = r
            /\ Get(r.USER_MEMORY, r.uid, <<>>) = <<>>
            /\ r.uid \notin DOMAIN r.USER_MEMORY

\* A step that answers a reset request leaves what reset computes.
C11_ResetStep ==
    (reply'.op = "reset" /\ reply.op # "reset") =>
        /\ reply'.status = "success"
        /\ \E data \in AnyResetBody :
              /\ USER_MEMORY' = ResetNow(data).USER_MEMORY
              /\ USER_REQUESTS' = ResetNow(data).USER_REQUESTS
              /\ STATS' = ResetNow(data).STATS
        /\ gens' = gens /\ fin' = fin

\* C11: in every reachable state, a reset of any identity succeeds; for an
\* identity without history it leaves every history, every request window
\* and both counters as they are; a second reset leaves exactly what the
\* first one left; and after it the identity has no history.
C11_ResetIdempotent == []C11_ResetOutcome /\ [][C11_ResetStep]_vars

\* A reset was answered while only the anonymous caller has ever chatted:
\* the identity that was reset had no history, and another one has.
C11_ResetWithoutHistory ==
    /\ reply.op = "reset" /\ reply.status = "success"
    /\ DOMAIN attempts = {uuid4(1)}
    /\ DOMAIN USER_MEMORY = {uuid4(1)}
    /\ Window(uuid4(1)) # <<>> /\ STATS.requests > 0

\* The number of characters of message m once it is trimmed.
TrimmedLength(m) == StrLen(strip(m))

\* The generator created in this step, if any.
NewGens == {gens'[id] : id \in (DOMAIN gens') \ (DOMAIN gens)}

C12_Validation ==
    \A u \in DOMAIN attempts' :
        ChatStep(u) =>
            LET n == TrimmedLength(ChatMessage(u))
            IN  /\ n = 0 =>
                      /\ reply' = Reply("chat", "error", <<"Say something">>)
                      /\ ChatStatus(u) = "error"
                      /\ USER_REQUESTS' = USER_REQUESTS /\ NewGens = {}
                /\ n > MAX_MESSAGE_LENGTH =>
                      /\ reply' = Reply("chat", "error", <<"Message too long.">>)
                      /\ ChatStatus(u) = "error"
                      /\ USER_REQUESTS' = USER_REQUESTS /\ NewGens = {}
                /\ (1 <= n /\ n <= MAX_MESSAGE_LENGTH) =>
                      /\ ChatStatus(u) \in {"stream", "limited"}
                      /\ u \in DOMAIN USER_REQUESTS'
                      /\ ChatStatus(u) = "stream" =>
                            /\ Window(u)' # <<>>
                            /\ Window(u)'[Len(Window(u)')] = clock
                            /\ \E g \in NewGens :
                                  /\ g.uid = u
                                  /\ g.messages[Len(g.messages)]
                                        = Turn("user", strip(ChatMessage(u)))

\* C12: the chat handler validates the length of the trimmed message: a
\* message that is empty after trimming is answered with the error "Say
\* something", one of more than MAX_MESSAGE_LENGTH characters after trimming
\* with the error "Message too long.", and neither reaches the rate limiter;
\* a message of 1 to MAX_MESSAGE_LENGTH characters after trimming, the limit
\* included, goes to the rate limiter and, admitted, gets a stream whose
\* user turn is the trimmed message.
C12_TrimmedLengthValidated == [][C12_Validation]_vars

\* A message of exactly MAX_MESSAGE_LENGTH characters between two blanks was
\* admitted, one of MAX_MESSAGE_LENGTH + 1 characters and a blank one were
\* refused.
C12_AtAndAboveLimit ==
    /\ Len(Log("u1")) = 3
    /\ Log("u1")[1] = Attempt(0, <<" ", "x2999", "x", " ">>, "stream")
    /\ Log("u1")[2] = Attempt(0, <<"x2999", "hi">>, "error")
    /\ Log("u1")[3] = Attempt(0, <<" ", " ">>, "error")
    /\ TrimmedLength(Log("u1")[1].message) = MAX_MESSAGE_LENGTH
    /\ TrimmedLength(Log("u1")[2].message) = MAX_MESSAGE_LENGTH + 1
    /\ Len(Window("u1")) = 1

C13_NeverDecrease ==
    /\ STATS'.requests >= STATS.requests
    /\ STATS'.blocked >= STATS.blocked

C13_OnlyChatCounts ==
    (\A u \in DOMAIN attempts' : ~ChatStep(u)) => STATS' = STATS

\* C13: no step of any execution (a chat request admitted, refused for its
\* message or refused by the rate limiter, a stream that completes or
\* fails, a reset, a stats read) lowers STATS.requests or STATS.blocked, and
\* only a chat request changes them at all.
C13_CountersMonotone == [][C13_NeverDecrease /\ C13_OnlyChatCounts]_vars

\* Both counters have moved, a stream has failed, and a reset was answered
\* last: the counters are still there.
C13_CountedThenReset ==
    /\ STATS.requests = REQUESTS_PER_MINUTE + 2
    /\ STATS.blocked = 1
    /\ reply.op = "reset"
    /\ fin # <<>> /\ TransportFailed(fin[1])
    /\ History("u1") = <<>>

\* Identity b has the same history and the same request window in the two
\* dictionaries pairs <<mem, reqs>> and <<mem2, reqs2>>.
SameFor(b, mem, reqs, mem2, reqs2) ==
    /\ (b \in DOMAIN mem2) = (b \in DOMAIN mem)
    /\ Get(mem2, b, <<>>) = Get(mem, b, <<>>)
    /\ (b \in DOMAIN reqs2) = (b \in DOMAIN reqs)
    /\ Get(reqs2, b, <<>>) = Get(reqs, b, <<>>)

\* This step leaves every identity but a as it was.
OthersUntouched(a) ==
    \A b \in (Identities \cup Identities') \ {a} :
        SameFor(b, USER_MEMORY, USER_REQUESTS, USER_MEMORY', USER_REQUESTS')

C14_ChatIsolated ==
    \A u \in DOMAIN attempts' :
        ChatStep(u) =>
            /\ OthersUntouched(u)
            /\ \A g \in NewGens :
                  /\ g.uid = u
                  /\ SubSeq(g.messages, 2, Len(g.messages) - 1) = History(u)

C14_StreamIsolated ==
    \A id \in DOMAIN gens : Moved(id) => OthersUntouched(gens[id].uid)

C14_ResetIsolated ==
    \A data \in AnyResetBody :
        \A b \in Identities \ {ResetNow(data).uid} :
            SameFor(b, USER_MEMORY, USER_REQUESTS,
                    ResetNow(data).USER_MEMORY, ResetNow(data).USER_REQUESTS)

\* C14: a chat request of identity A, admitted or refused, every step of a
\* stream of A, its commit included, and a reset of A leave the history and
\* the request window of every other identity as they were, whatever other
\* requests are in flight; and the prompt built for A holds, between the
\* system message and the new user turn, the history of A and nothing else.
C14_IdentitiesIsolated ==
    []C14_ResetIsolated /\ [][C14_ChatIsolated /\ C14_StreamIsolated]_vars

\* The named identity and an anonymous caller were streaming at the same
\* time; the request admitted second committed first, and each identity has
\* its own pair.
C14_TwoIdentitiesInterleaved ==
    /\ fin # <<>> /\ fin[1].id = 1 /\ fin[1].uid = "u1" /\ fin[1].saved
    /\ History("u1") = <<Turn("user", <<"hi">>), Turn("assistant", <<"A">>)>>
    /\ History(uuid4(2)) = <<Turn("user", <<"hi">>), Turn("assistant", <<>>)>>
    /\ Len(Window("u1")) = 1 /\ Len(Window(uuid4(2))) = 1
    /\ Get(commits, "u1", <<>>) = History("u1")

\* The timestamps of u's window that rate_limit would keep now.
LiveWindow(u) == SelectSeq(Window(u), LAMBDA x : clock - x < WINDOW_SECONDS)

C15_ValidatedThenLimited ==
    \A u \in DOMAIN attempts' :
        ChatStep(u) =>
            /\ InvalidMessage(ChatMessage(u)) =>
                  /\ ChatStatus(u) = "error"
                  /\ USER_REQUESTS' = USER_REQUESTS
                  /\ STATS'.blocked = STATS.blocked
            /\ ChatStatus(u) = "limited" =>
                  /\ ~InvalidMessage(ChatMessage(u))
                  /\ Len(LiveWindow(u)) >= REQUESTS_PER_MINUTE
            /\ ChatStatus(u) = "stream" =>
                  /\ ~InvalidMessage(ChatMessage(u))
                  /\ Len(LiveWindow(u)) < REQUESTS_PER_MINUTE
                  /\ Window(u)' = Append(LiveWindow(u), clock)
                  /\ Cardinality(NewGens) = 1
            /\ ChatStatus(u) \in {"error", "limited"} =>
                  /\ gens' = gens /\ fin' = fin
                  /\ USER_MEMORY' = USER_MEMORY /\ commits' = commits

\* A history grows only in a step of a generator of its identity.
C15_OnlyStreamsCommit ==
    \A u \in DOMAIN USER_MEMORY' :
        Len(History(u)') > Len(History(u)) =>
            \E id \in DOMAIN gens : Moved(id) /\ gens[id].uid = u

\* Every generator belongs to a request that was answered with a stream
\* (with a single identity, request number g.id is entry g.id of its log).
C15_StreamsWereAdmitted ==
    \A g \in Generators :
        /\ g.id <= Len(Log(g.uid))
        /\ Log(g.uid)[g.id].status = "stream"
        /\ g.messages[Len(g.messages)].content = strip(Log(g.uid)[g.id].message)

\* C15: a chat request is validated before the rate limiter sees it: one
\* whose message is invalid is answered "error" with every request window
\* and STATS.blocked as they were, also when the window is full; "limited"
\* and "stream" are answers to valid messages only, "stream" to those the
\* rate limiter admitted.  A request answered "error" or "limited" creates
\* no generator and commits nothing, and every generator, hence every
\* fragment and every commit, belongs to a request answered "stream".
C15_ValidationBeforeRateLimit ==
    []C15_StreamsWereAdmitted /\ [][C15_ValidatedThenLimited /\ C15_OnlyStreamsCommit]_vars

\* The window is full and the request that followed had a blank message: it
\* was refused for its message, and nothing was counted as blocked.
C15_InvalidAtFullWindow ==
    /\ Len(Window("u1")) = REQUESTS_PER_MINUTE
    /\ Len(Log("u1")) = REQUESTS_PER_MINUTE + 1
    /\ Log("u1")[REQUESTS_PER_MINUTE + 1] = Attempt(0, <<" ">>, "error")
    /\ STATS = [requests |-> REQUESTS_PER_MINUTE + 1, blocked |-> 0]
    /\ gens = EmptyDict

\* The times of the admitted requests among the log entries as, and those of
\* them that are less than a window old at time t.
AdmittedTimes(as) ==
    LET adm == SelectSeq(as, LAMBDA a : a.status = "stream")
    IN  [i \in 1..Len(adm) |-> adm[i].t]
RecentAdmissions(u, t) ==
    SelectSeq(AdmittedTimes(Log(u)), LAMBDA x : t - x < WINDOW_SECONDS)

C16_PruneThenDecide ==
    \A u \in DOMAIN attempts' :
        (ChatStep(u) /\ ~InvalidMessage(ChatMessage(u))) =>
            LET kept == SelectSeq(Window(u), LAMBDA x : clock - x < WINDOW_SECONDS)
            IN  /\ \A i \in DOMAIN Window(u) :
                      (clock - Window(u)[i] >= WINDOW_SECONDS) =>
                          \A j \in DOMAIN Window(u)' : Window(u)'[j] # Window(u)[i]
                /\ (ChatStatus(u) = "limited") = (Len(kept) >= REQUESTS_PER_MINUTE)
                /\ Window(u)' = IF ChatStatus(u) = "limited" THEN kept ELSE Append(kept, clock)
                /\ (ChatStatus(u) = "limited")
                      = (Len(RecentAdmissions(u, clock)) >= REQUESTS_PER_MINUTE)

\* What is less than a window old in the stored window is exactly the
\* admitted requests that are less than a window old: no refused request.
C16_WindowIsRecentAdmissions ==
    \A u \in DOMAIN attempts : LiveWindow(u) = RecentAdmissions(u, clock)

WholePairs(h) ==
    /\ Len(h) % 2 = 0
    /\ \A i \in 1..(Len(h) \div 2) :
          /\ h[2 * i - 1].role = "user"
          /\ h[2 * i].role = "assistant"
          /\ \E n \in 1..(MaxChunks + 1) :
                h[2 * i].content \in {<<>>} \cup {Concat([j \in 1..n |-> h[2 * i - 1].content])}

\* Generator id saves its exchange in this step.
Commits(id) == Moved(id) /\ After(id).saved /\ ~gens[id].saved

C17_HistoryWellFormed ==
    \A u \in (DOMAIN USER_MEMORY) \cup (DOMAIN commits) :
        /\ u \in DOMAIN USER_MEMORY /\ u \in DOMAIN commits
        /\ WholePairs(History(u))
        /\ Len(History(u)) <= 2 * MAX_MEMORY_MESSAGES
        /\ History(u) = LastN(commits[u], 2 * Min(Len(commits[u]) \div 2, MAX_MEMORY_MESSAGES))

C17_CommitAtomic ==
    \A id \in DOMAIN gens :
        LET g == gens[id]
            pair == <<Turn("user", g.messages[Len(g.messages)].content),
                      Turn("assistant", After(id).full_response)>>
        IN  /\ Commits(id) =>
                  /\ Get(USER_MEMORY', g.uid, <<>>)
                        = LastN(History(g.uid) \o pair, 2 * MAX_MEMORY_MESSAGES)
                  /\ Get(commits', g.uid, <<>>) = Get(commits, g.uid, <<>>) \o pair
            /\ (Moved(id) /\ ~Commits(id)) => USER_MEMORY' = USER_MEMORY

\* C17: with several requests of one identity in flight, in every
\* reachable state its history is a sequence of whole exchanges (even
\* length, user then assistant, both turns from the same request) of at
\* most 2 * MAX_MEMORY_MESSAGES turns, and it is the last
\* min(k, MAX_MEMORY_MESSAGES) of the k exchanges committed so far, in
\* commit order; the step in which a stream completes appends its exchange
\* whole to what the history held just before and drops only from the
\* front, and no other step of a stream changes a history.
C17_CommitsAtomic == []C17_HistoryWellFormed /\ [][C17_CommitAtomic]_vars

\* Requests 21 and 22 were in flight together and 22 committed first; by
\* then the first two exchanges had been evicted.
C17_OvertakenAtCap ==
    /\ Len(Get(commits, "u1", <<>>)) = 2 * MAX_MEMORY_MESSAGES + 4
    /\ Len(History("u1")) = 2 * MAX_MEMORY_MESSAGES
    /\ History("u1")[2 * MAX_MEMORY_MESSAGES - 3] = Turn("user", <<"22">>)
    /\ History("u1")[2 * MAX_MEMORY_MESSAGES - 2] = Turn("assistant", <<"22">>)
    /\ History("u1")[2 * MAX_MEMORY_MESSAGES - 1] = Turn("user", <<"21">>)
    /\ History("u1")[2 * MAX_MEMORY_MESSAGES] = Turn("assistant", <<>>)
    /\ History("u1")[1] = Turn("user", <<"3">>)

C18_PromptAtAdmission ==
    \A u \in DOMAIN attempts' :
        (ChatStep(u) /\ ChatStatus(u) = "stream") =>
            /\ Cardinality(NewGens) = 1
            /\ \A g \in NewGens :
                  /\ g.uid = u /\ g.posts = 0
                  /\ g.messages = <<Turn("system", BASE_SYSTEM_PROMPT)>>
                                     \o History(u)
                                     \o <<Turn("user", strip(ChatMessage(u)))>>
                  /\ Len(g.messages) <= 2 * MAX_MEMORY_MESSAGES + 2

\* No step changes the prompt of a generator that exists; the step in which
\* it posts the prompt upstream posts it once; the step in which it commits
\* stores the user turn of that prompt.
C18_PromptKept ==
    \A id \in DOMAIN gens :
        /\ After(id).messages = gens[id].messages
        /\ After(id).uid = gens[id].uid
        /\ After(id).posts \in {gens[id].posts, 1}
        /\ Commits(id) =>
              LET h == Get(USER_MEMORY', gens[id].uid, <<>>)
              IN  /\ Len(h) >= 2
                  /\ h[Len(h) - 1] = gens[id].messages[Len(gens[id].messages)]

\* C18: the message list of an admitted request, which its generator posts
\* upstream, is the system message, then the identity's history as stored
\* when the request was admitted, oldest first, then a user turn holding
\* the trimmed message: at most 2 * MAX_MEMORY_MESSAGES + 2 messages.  No
\* later step (a commit of another request, a reset) changes it, and the
\* user turn committed for the request is the last message of that list.
C18_PromptIsSnapshot == [][C18_PromptAtAdmission /\ C18_PromptKept]_vars

\* A request admitted after one exchange has posted its prompt, with that
\* exchange in it, and is streaming; a reset has since emptied the history.
C18_SnapshotOutlivesReset ==
    \E id \in DOMAIN gens :
        /\ gens[id].uid = "u1" /\ gens[id].posts = 1 /\ gens[id].pc = "y135"
        /\ Len(gens[id].messages) = 4
        /\ gens[id].messages[2] = Turn("user", <<"hi">>)
        /\ gens[id].messages[3] = Turn("assistant", <<"A">>)
        /\ gens[id].messages[4] = Turn("user", <<"hi">>)
        /\ Log("u1")[2].message = <<" ", "hi", " ">>
        /\ History("u1") = <<>>

\* The exchange generator id holds when this step is over.
OwnPair(id) ==
    <<Turn("user", gens[id].messages[Len(gens[id].messages)].content),
      Turn("assistant", After(id).full_response)>>

\* A reset empties the identity's history whatever is in flight.
C19_ResetEmpties ==
    \A data \in AnyResetBody :
        /\ ResetNow(data).uid \notin DOMAIN ResetNow(data).USER_MEMORY
        /\ Get(ResetNow(data).USER_MEMORY, ResetNow(data).uid, <<>>) = <<>>

\* A history holds turns committed since the identity's last reset only.
C19_OnlyLaterCommits ==
    \A u \in (DOMAIN USER_MEMORY) \cup (DOMAIN commits) :
        /\ Len(History(u)) <= Len(Get(commits, u, <<>>))
        /\ History(u) = LastN(Get(commits, u, <<>>), Len(History(u)))

C19_ResetLeavesStreams ==
    (reply'.op = "reset" /\ reply.op # "reset") =>
        /\ gens' = gens /\ fin' = fin
        /\ \E data \in AnyResetBody : USER_MEMORY' = ResetNow(data).USER_MEMORY

C19_CommitsOwnPair ==
    \A id \in DOMAIN gens :
        Commits(id) =>
            Get(USER_MEMORY', gens[id].uid, <<>>)
                = LastN(History(gens[id].uid) \o OwnPair(id), 2 * MAX_MEMORY_MESSAGES)

\* C19: a reset of an identity leaves it without history also while one of
\* its streams is in flight, and leaves the stream running; when the stream
\* later completes it appends its own exchange to the history as it is
\* then, so in every reachable state a history holds only turns committed
\* since the identity's last reset: the history in the prompt of a request
\* admitted before the reset is never stored again.
C19_ResetDuringStream ==
    /\ [](C19_ResetEmpties /\ C19_OnlyLaterCommits)
    /\ [][C19_ResetLeavesStreams /\ C19_CommitsOwnPair]_vars

\* A request admitted with one exchange in its prompt completed after a
\* reset: the history is its own exchange and nothing of the prompt.
C19_CommittedAfterReset ==
    /\ fin # <<>> /\ fin[1].uid = "u1" /\ fin[1].saved /\ fin[1].closes = 0
    /\ Len(fin[1].messages) = 4
    /\ fin[1].messages[3] = Turn("assistant", <<"A">>)
    /\ fin[1].full_response = <<>>
    /\ History("u1") = <<Turn("user", <<"hi">>), Turn("assistant", <<>>)>>

\* Whether a valid chat request of u would be refused by the rate limiter,
\* given the request windows reqs.
WouldBeLimited(reqs, u) ==
    chat(USER_MEMORY, reqs, STATS, u, <<"hi">>, now).status = "limited"

C20_ResetFrame ==
    \A data \in AnyResetBody :
        LET r == ResetNow(data)
        IN  /\ r.USER_REQUESTS = USER_REQUESTS
            /\ r.STATS = STATS
            /\ \A b \in DOMAIN USER_MEMORY :
                  b # r.uid => (b \in DOMAIN r.USER_MEMORY /\ r.USER_MEMORY[b] = USER_MEMORY[b])
            /\ DOMAIN r.USER_MEMORY = (DOMAIN USER_MEMORY) \ {r.uid}
            /\ WouldBeLimited(USER_REQUESTS, r.uid) = WouldBeLimited(r.USER_REQUESTS, r.uid)

C20_ResetStepFrame ==
    (reply'.op = "reset" /\ reply.op # "reset") =>
        /\ USER_REQUESTS' = USER_REQUESTS
        /\ STATS' = STATS
        /\ clock' = clock /\ gens' = gens
        /\ \A u \in DOMAIN attempts :
              (Log(u)[Len(Log(u))].status = "limited" /\ reply.op = "chat") =>
                  /\ WouldBeLimited(USER_REQUESTS, u)
                  /\ WouldBeLimited(USER_REQUESTS', u)

\* C20: a reset of any identity changes no request window, its own
\* included, and neither counter, and no history but that identity's; so
\* an identity whose next request the rate limiter would refuse before the
\* reset has it refused after the reset as well.
C20_ResetOnlyClearsHistory == []C20_ResetFrame /\ [][C20_ResetStepFrame]_vars

\* The identity's last request was refused by the rate limiter and the
\* handler that ran last is a reset: the history is gone, the window is still
\* full and the next request would be refused again.
C20_LimitedAcrossReset ==
    /\ reply.op = "reset" /\ gens = EmptyDict
    /\ Len(Log("u1")) = REQUESTS_PER_MINUTE + 1
    /\ Log("u1")[REQUESTS_PER_MINUTE + 1].status = "limited"
    /\ Len(Window("u1")) = REQUESTS_PER_MINUTE
    /\ History("u1") = <<>>
    /\ WouldBeLimited(USER_REQUESTS, "u1")
    /\ STATS = [requests |-> REQUESTS_PER_MINUTE + 1, blocked |-> 1]

====
